---- MODULE Spec2Model ----
(***************************************************************************)
(* A model of the chunked tilemap: the layer table, the chunk map, the     *)
(* spawned set and the chunk event queue of Tilemap (src/src/tilemap.rs),  *)
(* the chunks' depth/slot layer grid (src/src/chunk/mod.rs) and the dense  *)
(* and sparse layer storage (src/src/chunk/layer.rs).                      *)
(***************************************************************************)
EXTENDS Integers, Sequences, FiniteSets, TLC

(***************************************************************************)
(* Bounds of the model.                                                    *)
(***************************************************************************)
\* length of the layer table (TilemapBuilder::z_layers)
ZLayers == 2
\* chunk dimensions in tiles (TilemapBuilder::chunk_dimensions)
ChunkWidth == 2
ChunkHeight == 1
\* number of depths of a chunk's layer grid
ChunkDepth == 2
\* global tile x coordinates range over 0 .. TileRange
TileRange == 1
\* sprite indices of inserted tiles range over 1 .. MaxSprite
MaxSprite == 1
\* longest batch handed to insert_tiles / clear_tiles
MaxBatch == 2
\* dimensions, in chunks, of a bounded tilemap (TilemapBuilder::dimensions)
MapWidth == 1
MapHeight == 1
\* calls made on one tilemap
MaxCalls == 3
\* widths and heights handed to the coordinate conversions range over 1 .. MaxDim
MaxDim == 3
\* depths of the linear indices handed to the conversions range over 1 .. MaxDepth
MaxDepth == 2
\* tile coordinates handed to the conversions: -PointRange .. PointRange, and
\* the same distance beyond the last integers an f32 holds exactly
PointRange == 2
\* conversions applied in a row to one input
MaxTrail == 3

VARIABLES
    layers,         \* Tilemap.layers: the layer table, index = z order
    chunks,         \* Tilemap.chunks: chunk point -> Chunk
    spawned,        \* Tilemap.spawned: set of spawned chunk points
    chunk_events,   \* Tilemap.chunk_events: the outgoing event queue
    dimensions,     \* Tilemap.dimensions: <<>> (None) or <<[width, height]>>
    auto_chunk,     \* AutoFlags::AUTO_CHUNK of Tilemap.auto_flags
    op,             \* the last call made on the tilemap and its result
    calls,          \* the number of calls made so far
    ever_spawned,   \* history: the chunks that were handed entities since their creation
    dense,          \* a DenseLayer and
    sparse,         \* a SparseLayer of the same size, given the same calls
    layer_op,       \* the last call made on the two layers
    coord_dim,      \* the width and height handed to the coordinate conversions
    coord_trail     \* the input of the conversions and the values computed from it

tilemap_vars ==
    <<layers, chunks, spawned, chunk_events, dimensions, auto_chunk, op, calls, ever_spawned>>
layer_vars == <<dense, sparse, layer_op>>
coord_vars == <<coord_dim, coord_trail>>

vars ==
    <<layers, chunks, spawned, chunk_events, dimensions, auto_chunk, op, calls, ever_spawned,
      dense, sparse, layer_op, coord_dim, coord_trail>>

(***************************************************************************)
(* Option, HashMap and Vec helpers.                                        *)
(***************************************************************************)
None == <<>>
Some(x) == <<x>>

MapInsert(m, k, v) == [x \in (DOMAIN m) \cup {k} |-> IF x = k THEN v ELSE m[x]]
MapRemove(m, k) == [x \in (DOMAIN m) \ {k} |-> m[x]]
MapOrInsert(m, k, v) == IF k \in DOMAIN m THEN m ELSE MapInsert(m, k, v)

\* Vec::swap on 0-based indices a, b (both in range)
VecSwap(v, a, b) ==
    [i \in 1..Len(v) |-> IF i = a + 1 THEN v[b + 1]
                         ELSE IF i = b + 1 THEN v[a + 1] ELSE v[i]]
\* Vec::remove on a 0-based index (in range): later elements shift down
VecRemove(v, a) ==
    [i \in 1..(Len(v) - 1) |-> IF i < a + 1 THEN v[i] ELSE v[i + 1]]

\* all orders in which a HashMap may iterate over the key set S
Orders(S) ==
    {o \in [1..Cardinality(S) -> S] : \A i, j \in 1..Cardinality(S) : o[i] = o[j] => i = j}

(***************************************************************************)
(* Results.                                                                *)
(***************************************************************************)
Ok == [tag |-> "Ok", arg |-> <<>>]
Err(tag, arg) == [tag |-> tag, arg |-> <<arg>>]
Panic == [tag |-> "panic", arg |-> <<>>]
\* ErrorKind::MissingChunk carries no payload
MissingChunk == [tag |-> "MissingChunk", arg |-> <<>>]

(***************************************************************************)
(* RawTile and the two layer storages (chunk/layer.rs).                    *)
(***************************************************************************)
NoEntity == 0

\* a RawTile: the sprite index and the alpha of its tint
RawTile(index, a) == [index |-> index, a |-> a]

NoLayer == [kind |-> "None", tiles |-> <<>>, entity |-> NoEntity]

DenseLayer_new(tiles) == [kind |-> "Dense", tiles |-> tiles, entity |-> NoEntity]
SparseLayer_new(tiles) == [kind |-> "Sparse", tiles |-> tiles, entity |-> NoEntity]

Dense_set_tile(l, index, tile) ==
    IF index >= 0 /\ index < Len(l.tiles)
    THEN [l EXCEPT !.tiles[index + 1] = tile]
    ELSE l

\* a faulty remove_tile that zeroes the sprite index instead of the alpha
Dense_remove_tile_ZeroIndex(l, index) ==
    IF index >= 0 /\ index < Len(l.tiles)
    THEN [l EXCEPT !.tiles[index + 1].index = 0]
    ELSE l

Dense_remove_tile(l, index) ==
    IF index >= 0 /\ index < Len(l.tiles)
    THEN [l EXCEPT !.tiles[index + 1].a = 0]
    ELSE l

Dense_get_tile(l, index) ==
    IF index >= 0 /\ index < Len(l.tiles) /\ l.tiles[index + 1].a # 0
    THEN Some(l.tiles[index + 1])
    ELSE None

Sparse_set_tile(l, index, tile) ==
    LET removed == IF tile.a = 0 THEN MapRemove(l.tiles, index) ELSE l.tiles
    IN  [l EXCEPT !.tiles = MapInsert(removed, index, tile)]

Sparse_remove_tile(l, index) == [l EXCEPT !.tiles = MapRemove(@, index)]

Sparse_get_tile(l, index) ==
    IF index \in DOMAIN l.tiles THEN Some(l.tiles[index]) ELSE None

\* the indices SparseLayer::get_tile_indices returns, as a set
Sparse_get_tile_indices(l) == DOMAIN l.tiles

\* the two vertex attribute arrays of a layer of `area` tiles, all zero
ZeroAttributes(area) ==
    [tile_indexes |-> [j \in 1..(area * 4) |-> 0],
     tile_colors |-> [j \in 1..(area * 4) |-> 0]]

\* a faulty write with a stride of one entry per tile
WriteTile_Stride1(attributes, index, tile) ==
    [tile_indexes |-> [j \in DOMAIN attributes.tile_indexes |->
                        IF j - 1 \in {index + i : i \in 0..3}
                        THEN tile.index ELSE attributes.tile_indexes[j]],
     tile_colors |-> [j \in DOMAIN attributes.tile_colors |->
                        IF j - 1 \in {index + i : i \in 0..3}
                        THEN tile.a ELSE attributes.tile_colors[j]]]

\* the inner loop: the entries index * 4 + i, i in 0..4, that exist are written
WriteTile(attributes, index, tile) ==
    [tile_indexes |-> [j \in DOMAIN attributes.tile_indexes |->
                        IF j - 1 \in {index * 4 + i : i \in 0..3}
                        THEN tile.index ELSE attributes.tile_indexes[j]],
     tile_colors |-> [j \in DOMAIN attributes.tile_colors |->
                        IF j - 1 \in {index * 4 + i : i \in 0..3}
                        THEN tile.a ELSE attributes.tile_colors[j]]]

RECURSIVE WriteTiles(_, _, _, _)
\* the outer loop over the map, in the order order[k], order[k + 1], ...
WriteTiles(attributes, tiles, order, k) ==
    IF k > Len(order) THEN attributes
    ELSE WriteTiles(WriteTile(attributes, order[k], tiles[order[k]]), tiles, order, k + 1)

\* `order` is the order in which the HashMap iterates
sparse_tiles_to_attributes(area, tiles, order) ==
    WriteTiles(ZeroAttributes(area), tiles, order, 1)

\* SparseLayer::tiles_to_attributes
Sparse_tiles_to_attributes(l, area, order) ==
    sparse_tiles_to_attributes(area, l.tiles, order)

\* every tile of the vector fills four entries of both arrays
dense_tiles_to_attributes(tiles) ==
    [tile_indexes |-> [j \in 1..(Len(tiles) * 4) |-> tiles[((j - 1) \div 4) + 1].index],
     tile_colors |-> [j \in 1..(Len(tiles) * 4) |-> tiles[((j - 1) \div 4) + 1].a]]

\* DenseLayer::tiles_to_attributes
Dense_tiles_to_attributes(l) == dense_tiles_to_attributes(l.tiles)

\* dispatch over LayerKindInner
Layer_set_tile(l, index, tile) ==
    IF l.kind = "Dense" THEN Dense_set_tile(l, index, tile)
    ELSE Sparse_set_tile(l, index, tile)

Layer_remove_tile(l, index) ==
    IF l.kind = "Dense" THEN Dense_remove_tile(l, index)
    ELSE Sparse_remove_tile(l, index)

Layer_get_tile(l, index) ==
    IF l.kind = "Dense" THEN Dense_get_tile(l, index)
    ELSE Sparse_get_tile(l, index)

(***************************************************************************)
(* Chunk (chunk/mod.rs).                                                   *)
(***************************************************************************)
ChunkArea == ChunkWidth * ChunkHeight

\* the layer a chunk materializes for a layer kind
NewSpriteLayer(kind) ==
    IF kind = "Dense"
    THEN DenseLayer_new([i \in 1..ChunkArea |-> RawTile(0, 0)])
    ELSE SparseLayer_new(<<>>)

\* for every depth: fill the slot if it exists and holds no layer yet
Chunk_add_layer(chunk, kind, sprite_order) ==
    [chunk EXCEPT !.z_layers =
        [z \in 1..Len(@) |->
            IF sprite_order < Len(@[z]) /\ @[z][sprite_order + 1].kind = "None"
            THEN [@[z] EXCEPT ![sprite_order + 1] = NewSpriteLayer(kind)]
            ELSE @[z]]]

RECURSIVE AddSpriteLayers(_, _, _)
AddSpriteLayers(chunk, sprite_layers, i) ==
    IF i > Len(sprite_layers) THEN chunk
    ELSE AddSpriteLayers(
            IF sprite_layers[i] # "None"
            THEN Chunk_add_layer(chunk, sprite_layers[i], i - 1)
            ELSE chunk,
            sprite_layers, i + 1)

Chunk_new(point, sprite_layers) ==
    AddSpriteLayers(
        [point |-> point,
         z_layers |-> [z \in 1..ChunkDepth |-> [s \in 1..Len(sprite_layers) |-> NoLayer]]],
        sprite_layers, 1)

\* depth by depth: stop at an occupied destination, otherwise Vec::swap, which
\* panics on an index out of range
RECURSIVE MoveSpriteLayers(_, _, _, _)
MoveSpriteLayers(z_layers, z, from, to) ==
    IF z > Len(z_layers) THEN [z_layers |-> z_layers, panic |-> FALSE]
    ELSE IF to < Len(z_layers[z]) /\ z_layers[z][to + 1].kind # "None"
    THEN [z_layers |-> z_layers, panic |-> FALSE]
    ELSE IF from >= Len(z_layers[z]) \/ to >= Len(z_layers[z])
    THEN [z_layers |-> z_layers, panic |-> TRUE]
    ELSE MoveSpriteLayers([z_layers EXCEPT ![z] = VecSwap(@, from, to)], z + 1, from, to)

\* a faulty move_sprite_layer that swaps without looking at the destination
Chunk_move_layer_Overwrites(chunk, from, to) ==
    IF \E z \in 1..Len(chunk.z_layers) :
            from >= Len(chunk.z_layers[z]) \/ to >= Len(chunk.z_layers[z])
    THEN [chunk |-> chunk, panic |-> TRUE]
    ELSE [chunk |-> [chunk EXCEPT !.z_layers =
                        [z \in 1..Len(@) |-> VecSwap(@[z], from, to)]],
          panic |-> FALSE]

Chunk_move_layer(chunk, from, to) ==
    LET r == MoveSpriteLayers(chunk.z_layers, 1, from, to)
    IN  [chunk |-> [chunk EXCEPT !.z_layers = r.z_layers], panic |-> r.panic]

\* a faulty remove_sprite_layer that only removes the slot of the first depth
Chunk_remove_layer_FirstDepth(chunk, sprite_layer) ==
    IF \E z \in 1..Len(chunk.z_layers) : sprite_layer >= Len(chunk.z_layers[z])
    THEN [chunk |-> chunk, panic |-> TRUE]
    ELSE [chunk |-> [chunk EXCEPT !.z_layers[1] = VecRemove(@, sprite_layer)],
          panic |-> FALSE]

\* Vec::remove at every depth; it panics on an index out of range
Chunk_remove_layer(chunk, sprite_layer) ==
    IF \E z \in 1..Len(chunk.z_layers) : sprite_layer >= Len(chunk.z_layers[z])
    THEN [chunk |-> chunk, panic |-> TRUE]
    ELSE [chunk |-> [chunk EXCEPT !.z_layers =
                        [z \in 1..Len(@) |-> VecRemove(@[z], sprite_layer)]],
          panic |-> FALSE]

\* dispatch over LayerKindInner; `order` is the iteration order of a sparse map
Layer_tiles_to_attributes(l, area, order) ==
    IF l.kind = "Dense" THEN Dense_tiles_to_attributes(l)
    ELSE Sparse_tiles_to_attributes(l, area, order)

\* Vec::append on both arrays
AppendAttributes(parts, attributes) ==
    [tile_indexes |-> parts.tile_indexes \o attributes.tile_indexes,
     tile_colors |-> parts.tile_colors \o attributes.tile_colors]

\* a faulty inner loop that serializes the absent layers as empty sparse ones
RECURSIVE DepthToParts_KeepsAbsent(_, _, _, _, _)
DepthToParts_KeepsAbsent(parts, depth, orders, area, s) ==
    IF s > Len(depth) THEN parts
    ELSE DepthToParts_KeepsAbsent(
            AppendAttributes(parts,
                IF depth[s].kind = "None" THEN ZeroAttributes(area)
                ELSE Layer_tiles_to_attributes(depth[s], area, orders[s])),
            depth, orders, area, s + 1)

\* the inner loop `for layer in depth.iter().flatten()`: the slots in ascending
\* order, the absent ones skipped; orders[s] is the iteration order at slot s
RECURSIVE DepthToParts(_, _, _, _, _)
DepthToParts(parts, depth, orders, area, s) ==
    IF s > Len(depth) THEN parts
    ELSE DepthToParts(
            IF depth[s].kind = "None" THEN parts
            ELSE AppendAttributes(parts, Layer_tiles_to_attributes(depth[s], area, orders[s])),
            depth, orders, area, s + 1)

\* the outer loop `for depth in &self.z_layers`
RECURSIVE DepthsToParts(_, _, _, _, _)
DepthsToParts(parts, z_layers, orders, area, d) ==
    IF d > Len(z_layers) THEN parts
    ELSE DepthsToParts(DepthToParts(parts, z_layers[d], orders[d], area, 1),
                       z_layers, orders, area, d + 1)

\* orders[d][s] is the order in which the map of the layer at depth d, slot s
\* iterates
Chunk_tiles_to_renderer_parts(chunk, area, orders) ==
    DepthsToParts([tile_indexes |-> <<>>, tile_colors |-> <<>>],
                  chunk.z_layers, orders, area, 1)

\* a faulty set_tile that writes the tile into every layer of the first depth
Chunk_set_tile_AllSlots(chunk, index, tile) ==
    IF Len(chunk.z_layers) >= 1
    THEN [chunk EXCEPT !.z_layers[1] =
            [s \in 1..Len(@) |->
                IF @[s].kind # "None"
                THEN Layer_set_tile(@[s], index, RawTile(tile.sprite_index, tile.tint))
                ELSE @[s]]]
    ELSE chunk

\* tiles handed over by the tilemap live at the first depth
Chunk_set_tile(chunk, index, tile) ==
    IF Len(chunk.z_layers) >= 1
       /\ tile.z_order < Len(chunk.z_layers[1])
       /\ chunk.z_layers[1][tile.z_order + 1].kind # "None"
    THEN [chunk EXCEPT !.z_layers[1][tile.z_order + 1] =
            Layer_set_tile(@, index, RawTile(tile.sprite_index, tile.tint))]
    ELSE chunk

Chunk_remove_tile(chunk, index, sprite_layer) ==
    IF Len(chunk.z_layers) >= 1
       /\ sprite_layer < Len(chunk.z_layers[1])
       /\ chunk.z_layers[1][sprite_layer + 1].kind # "None"
    THEN [chunk EXCEPT !.z_layers[1][sprite_layer + 1] = Layer_remove_tile(@, index)]
    ELSE chunk

Chunk_get_tile(chunk, sprite_order, index) ==
    IF Len(chunk.z_layers) >= 1
       /\ sprite_order < Len(chunk.z_layers[1])
       /\ chunk.z_layers[1][sprite_order + 1].kind # "None"
    THEN Layer_get_tile(chunk.z_layers[1][sprite_order + 1], index)
    ELSE None

\* the entity of the layer at a z order, if the layer has been spawned
Chunk_get_entity(chunk, z_order) ==
    IF Len(chunk.z_layers) >= 1
       /\ z_order < Len(chunk.z_layers[1])
       /\ chunk.z_layers[1][z_order + 1].entity # NoEntity
    THEN Some(chunk.z_layers[1][z_order + 1].entity)
    ELSE None

\* the entities of all spawned layers of the chunk
Chunk_get_entities(chunk) ==
    {chunk.z_layers[z][s].entity :
        z \in 1..Len(chunk.z_layers), s \in 1..Len(chunk.z_layers[1])} \ {NoEntity}

(***************************************************************************)
(* f32 arithmetic.  An f32 is m * 2^e with 2^23 <= |m| < 2^24, or zero;    *)
(* every operation rounds its exact result to the nearest such value, ties *)
(* to the even mantissa.  The values of the model stay far from the        *)
(* exponent limits, so subnormals and infinities do not arise.             *)
(***************************************************************************)
F32_MANTISSA_DIGITS == 24

Abs(n) == IF n < 0 THEN -n ELSE n
Sgn(n) == IF n < 0 THEN -1 ELSE IF n > 0 THEN 1 ELSE 0

RECURSIVE BitLen(_)
\* the number of binary digits of n >= 0
BitLen(n) == IF n = 0 THEN 0 ELSE 1 + BitLen(n \div 2)

F32_ZERO == [m |-> 0, e |-> 0]

\* n * 2^e rounded to an f32.  A caller that dropped low digits of n keeps
\* at least two digits below the mantissa and sets the last one.
F32_round(n, e) ==
    IF n = 0 THEN F32_ZERO
    ELSE LET a == Abs(n)
             s == BitLen(a) - F32_MANTISSA_DIGITS
         IN  IF s <= 0 THEN [m |-> n * 2^(-s), e |-> e + s]
             ELSE LET q == a \div 2^s
                      r == a % 2^s
                      half == 2^(s - 1)
                      q1 == IF r > half \/ (r = half /\ q % 2 = 1) THEN q + 1 ELSE q
                  IN  IF q1 = 2^F32_MANTISSA_DIGITS
                      THEN [m |-> Sgn(n) * 2^(F32_MANTISSA_DIGITS - 1), e |-> e + s + 1]
                      ELSE [m |-> Sgn(n) * q1, e |-> e + s]

\* `n as f32` for an integer n
F32_from(n) == F32_round(n, 0)

F32_neg(a) == [a EXCEPT !.m = -a.m]

\* a + b
F32_add(a, b) ==
    IF a.m = 0 THEN b
    ELSE IF b.m = 0 THEN a
    ELSE LET hi == IF a.e >= b.e THEN a ELSE b
             lo == IF a.e >= b.e THEN b ELSE a
             e0 == hi.e - 3
             d == e0 - lo.e
         IN  IF d <= 0 THEN F32_round(hi.m * 8 + lo.m * 2^(-d), e0)
             ELSE IF d > F32_MANTISSA_DIGITS THEN F32_round(hi.m * 8 + Sgn(lo.m), e0)
             ELSE LET q == Abs(lo.m) \div 2^d
                      sticky == IF Abs(lo.m) % 2^d # 0 THEN 1 ELSE 0
                      part == IF sticky = 1 /\ q % 2 = 0 THEN q + 1 ELSE q
                  IN  F32_round(hi.m * 8 + Sgn(lo.m) * part, e0)

\* a - b
F32_sub(a, b) == F32_add(a, F32_neg(b))

\* a * b
F32_mul(a, b) ==
    IF a.m = 0 \/ b.m = 0 THEN F32_ZERO
    ELSE LET x == Abs(a.m)
             y == Abs(b.m)
             xh == x \div 4096
             xl == x % 4096
             yh == y \div 4096
             yl == y % 4096
             ll == xl * yl
             mid == xh * yl + xl * yh + (ll \div 4096)
             high == xh * yh + (mid \div 4096)
             rest == (mid % 4096) * 4096 + (ll % 4096)
             \* |a.m * b.m| = high * 2^24 + rest
             sticky == IF rest % 2^20 # 0 THEN 1 ELSE 0
             n == high * 32 + (rest \div 2^20) * 2 + sticky
         IN  F32_round(Sgn(a.m) * Sgn(b.m) * n, a.e + b.e + 19)

RECURSIVE DivBits(_, _, _, _)
\* k more binary digits of the quotient r / d (0 <= r < d), after the digits q
DivBits(q, r, d, k) ==
    IF k = 0 THEN [q |-> q, r |-> r]
    ELSE IF 2 * r >= d THEN DivBits(2 * q + 1, 2 * r - d, d, k - 1)
    ELSE DivBits(2 * q, 2 * r, d, k - 1)

\* a / b, b not zero
F32_div(a, b) ==
    IF a.m = 0 THEN F32_ZERO
    ELSE LET n == Abs(a.m)
             d == Abs(b.m)
             qr == DivBits(n \div d, n % d, d, 26)
             sticky == IF qr.r # 0 THEN 1 ELSE 0
         IN  F32_round(Sgn(a.m) * Sgn(b.m) * (2 * qr.q + sticky), a.e - b.e - 27)

RECURSIVE ModShift(_, _, _)
\* (r * 2^k) % d
ModShift(r, d, k) == IF k = 0 THEN r ELSE ModShift((2 * r) % d, d, k - 1)

\* a % b: the exact remainder, with the sign of a
F32_rem(a, b) ==
    IF a.m = 0 THEN F32_ZERO
    ELSE IF a.e < b.e THEN a
    ELSE F32_round(Sgn(a.m) * ModShift(Abs(a.m) % Abs(b.m), Abs(b.m), a.e - b.e), b.e)

\* the integer part of |a|, saturated at i32::MAX
F32_trunc_abs(a) ==
    IF a.e > 7 THEN 2147483647
    ELSE IF a.e >= 0 THEN Abs(a.m) * 2^a.e
    ELSE IF a.e <= -F32_MANTISSA_DIGITS THEN 0
    ELSE Abs(a.m) \div 2^(-a.e)

\* a.floor() as i32
F32_floor_as_i32(a) ==
    LET t == F32_trunc_abs(a)
        whole == a.e >= 0 \/ (a.e > -F32_MANTISSA_DIGITS /\ Abs(a.m) % 2^(-a.e) = 0)
    IN  IF a.m >= 0 THEN t
        ELSE IF whole THEN -t ELSE -t - 1

\* a as usize: truncated, a negative value becomes 0
F32_as_usize(a) == IF a.m <= 0 THEN 0 ELSE F32_trunc_abs(a)

(***************************************************************************)
(* Coordinates (tilemap.rs, Dimension2).                                   *)
(***************************************************************************)
Point2(x, y) == <<x, y>>

\* Dimension2::check_point: each axis lies in [-dim/2, dim/2)
check_point(dim, point) ==
    /\ -dim.width <= 2 * point[1] /\ 2 * point[1] < dim.width
    /\ -dim.height <= 2 * point[2] /\ 2 * point[2] < dim.height

\* Tilemap::point_to_chunk_point for chunks of the given dimensions:
\* floor((p + dim / 2.0) / dim) on each axis, in f32
Dim_point_to_chunk_point(dim, point) ==
    LET width == F32_from(dim.width)
        height == F32_from(dim.height)
        x == F32_floor_as_i32(F32_div(F32_add(F32_from(point[1]),
                                              F32_div(width, F32_from(2))), width))
        y == F32_floor_as_i32(F32_div(F32_add(F32_from(point[2]),
                                              F32_div(height, F32_from(2))), height))
    IN  Point2(x, y)

\* the body of Tilemap::point_to_tile_point, given the chunk point of the point:
\* p - dim * chunk_point + dim / 2 on each axis, in i32
local_tile_point(dim, point, chunk_point) ==
    LET width == dim.width
        height == dim.height
    IN  Point2(point[1] - (width * chunk_point[1]) + (width \div 2),
               point[2] - (height * chunk_point[2]) + (height \div 2))

\* Tilemap::point_to_tile_point for chunks of the given dimensions
Dim_point_to_tile_point(dim, point) ==
    local_tile_point(dim, point, Dim_point_to_chunk_point(dim, point))

\* Tilemap.chunk_dimensions
chunk_dimensions == [width |-> ChunkWidth, height |-> ChunkHeight]

\* Tilemap::point_to_chunk_point with the tilemap's chunk dimensions.  For
\* |p| <= 2^22 every f32 step of Dim_point_to_chunk_point is exact and its
\* result is the floor of (2p + dim) / (2 * dim); the tile points handed to
\* the tilemap are that small.
point_to_chunk_point(point) ==
    Point2((2 * point[1] + ChunkWidth) \div (2 * ChunkWidth),
           (2 * point[2] + ChunkHeight) \div (2 * ChunkHeight))

point_to_tile_point(point) ==
    local_tile_point(chunk_dimensions, point, point_to_chunk_point(point))

\* Dimension2::encode_point_unchecked: the linear index of a local point
encode_point_unchecked(point) == point[2] * ChunkWidth + point[1]

(***************************************************************************)
(* Coordinate conversions (coord.rs).                                      *)
(***************************************************************************)
Vec2(x, y) == [x |-> x, y |-> y]
Vec3(x, y, z) == [x |-> x, y |-> y, z |-> z]

\* impl ToCoord2 for usize
usize_to_coord2(self, width, height) ==
    LET y == F32_div(F32_from(self), height)
        x == F32_rem(F32_from(self), width)
    IN  Vec2(x, y)

\* impl ToCoord3 for usize
usize_to_coord3(self, width, height) ==
    LET z == F32_div(F32_from(self), F32_mul(width, height))
        idx == F32_sub(F32_from(self), F32_mul(F32_mul(z, width), height))
        y == F32_sub(F32_sub(height, F32_from(1)), F32_div(idx, width))
        x == F32_rem(idx, width)
    IN  Vec3(x, y, z)

\* impl ToIndex for Vec2
Vec2_to_index(self, width, height) ==
    F32_as_usize(F32_add(F32_mul(self.y, width), self.x))

\* impl ToIndex for Vec3
Vec3_to_index(self, width, height) ==
    F32_as_usize(F32_add(F32_add(F32_mul(F32_mul(self.z, width), height),
                                 F32_mul(self.y, width)),
                         self.x))

(***************************************************************************)
(* Events (TilemapChunkEvent).                                             *)
(***************************************************************************)
Spawned(point) ==
    [type |-> "Spawned", point |-> point, entities |-> {}, layers |-> <<>>]
Despawned(entities, point) ==
    [type |-> "Despawned", point |-> point, entities |-> entities, layers |-> <<>>]
Modified(ls) ==
    [type |-> "Modified", point |-> <<>>, entities |-> {}, layers |-> ls]

(***************************************************************************)
(* Tilemap (tilemap.rs).  The methods are operators from the tilemap's     *)
(* fields, gathered in a record self, to the fields after the call and the *)
(* call's result.                                                          *)
(***************************************************************************)
Self ==
    [layers |-> layers, chunks |-> chunks, spawned |-> spawned,
     chunk_events |-> chunk_events]

Ret(self, res) == [self |-> self, res |-> res]

\* AutoFlags::AUTO_CONFIGURE of Tilemap.auto_flags: the builder starts from
\* AutoFlags::NONE and no method sets the flag, so it is off in every tilemap
auto_configure == FALSE

\* the layer kinds of the table, handed to Chunk::new
layer_kinds(self) == self.layers

\* a faulty insert_chunk that reports success over an existing chunk
Tilemap_insert_chunk_Silent(self, point) ==
    IF dimensions # None /\ ~check_point(dimensions[1], point)
    THEN Ret(self, Err("DimensionError", point))
    ELSE Ret([self EXCEPT
                !.chunks = MapInsert(@, point, Chunk_new(point, layer_kinds(self)))],
             Ok)

\* a faulty insert_chunk that does not validate the point against the bounds
Tilemap_insert_chunk_Unchecked(self, point) ==
    Ret([self EXCEPT !.chunks = MapInsert(@, point, Chunk_new(point, layer_kinds(self)))],
        IF point \in DOMAIN self.chunks
        THEN Err("ChunkAlreadyExists", point)
        ELSE Ok)

Tilemap_insert_chunk(self, point) ==
    IF dimensions # None /\ ~check_point(dimensions[1], point)
    THEN Ret(self, Err("DimensionError", point))
    ELSE LET chunk == Chunk_new(point, layer_kinds(self))
         IN  Ret([self EXCEPT !.chunks = MapInsert(@, point, chunk)],
                 IF point \in DOMAIN self.chunks
                 THEN Err("ChunkAlreadyExists", point)
                 ELSE Ok)

Tilemap_contains_chunk(self, point) == point \in DOMAIN self.chunks

\* a faulty add_layer that overwrites a configured slot instead of refusing
Tilemap_add_layer_Overwrite(self, kind, z_order) ==
    Ret([self EXCEPT
            !.layers = IF z_order < Len(@)
                       THEN [@ EXCEPT ![z_order + 1] = kind] ELSE @,
            !.chunks = [p \in DOMAIN @ |-> Chunk_add_layer(@[p], kind, z_order)]],
        Ok)

Tilemap_add_layer(self, kind, z_order) ==
    IF z_order < Len(self.layers) /\ self.layers[z_order + 1] # "None"
    THEN Ret(self, Err("LayerExists", z_order))
    ELSE Ret([self EXCEPT
                !.layers = IF z_order < Len(@)
                           THEN [@ EXCEPT ![z_order + 1] = kind] ELSE @,
                !.chunks = [p \in DOMAIN @ |-> Chunk_add_layer(@[p], kind, z_order)]],
             Ok)

\* a faulty move_layer that does not test the destination slot
Tilemap_move_layer_NoDestCheck(self, from_z, to_z) ==
    IF from_z >= Len(self.layers) \/ to_z >= Len(self.layers)
    THEN Ret(self, Panic)
    ELSE IF \E p \in DOMAIN self.chunks : Chunk_move_layer(self.chunks[p], from_z, to_z).panic
    THEN Ret(self, Panic)
    ELSE Ret([self EXCEPT
                !.layers = VecSwap(@, from_z, to_z),
                !.chunks = [p \in DOMAIN @ |-> Chunk_move_layer(@[p], from_z, to_z).chunk]],
             Ok)

Tilemap_move_layer(self, from_z, to_z) ==
    IF to_z < Len(self.layers) /\ self.layers[to_z + 1] # "None"
    THEN Ret(self, Err("LayerExists", to_z))
    \* the origin test `Some(layer).is_none()` never holds
    ELSE IF from_z >= Len(self.layers) \/ to_z >= Len(self.layers)
    THEN Ret(self, Panic)
    ELSE IF \E p \in DOMAIN self.chunks : Chunk_move_layer(self.chunks[p], from_z, to_z).panic
    THEN Ret(self, Panic)
    ELSE Ret([self EXCEPT
                !.layers = VecSwap(@, from_z, to_z),
                !.chunks = [p \in DOMAIN @ |-> Chunk_move_layer(@[p], from_z, to_z).chunk]],
             Ok)

Tilemap_remove_layer(self, z) ==
    IF z >= Len(self.layers) THEN Ret(self, Ok)
    ELSE IF \E p \in DOMAIN self.chunks : Chunk_remove_layer(self.chunks[p], z).panic
    THEN Ret(self, Panic)
    ELSE Ret([self EXCEPT
                !.layers[z + 1] = "None",
                !.chunks = [p \in DOMAIN @ |-> Chunk_remove_layer(@[p], z).chunk]],
             Ok)

\* a faulty spawn_chunk that starts a new queue for its event
Tilemap_spawn_chunk_ResetsQueue(self, point) ==
    IF dimensions # None /\ ~check_point(dimensions[1], point)
    THEN Ret(self, Err("DimensionError", point))
    ELSE IF point \in self.spawned
    THEN Ret(self, Ok)
    ELSE Ret([self EXCEPT !.chunk_events = <<Spawned(point)>>], Ok)

Tilemap_spawn_chunk(self, point) ==
    IF dimensions # None /\ ~check_point(dimensions[1], point)
    THEN Ret(self, Err("DimensionError", point))
    ELSE IF point \in self.spawned
    THEN Ret(self, Ok)
    ELSE Ret([self EXCEPT !.chunk_events = Append(@, Spawned(point))], Ok)

\* a faulty despawn_chunk that emits only for a chunk in the spawned set
Tilemap_despawn_chunk_IfSpawned(self, point) ==
    IF dimensions # None /\ ~check_point(dimensions[1], point)
    THEN Ret(self, Err("DimensionError", point))
    ELSE Ret([self EXCEPT
                !.spawned = @ \ {point},
                !.chunk_events =
                    IF point \in DOMAIN self.chunks /\ point \in self.spawned
                    THEN Append(@, Despawned(Chunk_get_entities(self.chunks[point]), point))
                    ELSE @],
             Ok)

\* a faulty despawn_chunk that also drops the chunk's data
Tilemap_despawn_chunk_DropsChunk(self, point) ==
    IF dimensions # None /\ ~check_point(dimensions[1], point)
    THEN Ret(self, Err("DimensionError", point))
    ELSE Ret([self EXCEPT
                !.spawned = @ \ {point},
                !.chunks = MapRemove(@, point),
                !.chunk_events =
                    IF point \in DOMAIN self.chunks
                    THEN Append(@, Despawned(Chunk_get_entities(self.chunks[point]), point))
                    ELSE @],
             Ok)

Tilemap_despawn_chunk(self, point) ==
    IF dimensions # None /\ ~check_point(dimensions[1], point)
    THEN Ret(self, Err("DimensionError", point))
    ELSE Ret([self EXCEPT
                !.spawned = @ \ {point},
                !.chunk_events =
                    IF point \in DOMAIN self.chunks
                    THEN Append(@, Despawned(Chunk_get_entities(self.chunks[point]), point))
                    ELSE @],
             Ok)

\* a faulty remove_chunk that deletes the chunk without despawning it
Tilemap_remove_chunk_NoDespawn(self, point) ==
    IF dimensions # None /\ ~check_point(dimensions[1], point)
    THEN Ret(self, Err("DimensionError", point))
    ELSE Ret([self EXCEPT !.chunks = MapRemove(@, point)], Ok)

Tilemap_remove_chunk(self, point) ==
    LET d == Tilemap_despawn_chunk(self, point)
    IN  IF d.res # Ok THEN d
        ELSE Ret([d.self EXCEPT !.chunks = MapRemove(@, point)], Ok)

\* a faulty sort step that keeps the global point instead of the local one
SortStep_GlobalPoint(st, tile) ==
    LET self == st.self
        chunk_point == point_to_chunk_point(tile.point)
    IN  IF tile.z_order >= Len(self.layers)
        THEN [st EXCEPT !.res = Err("LayerDoesNotExist", tile.z_order)]
        ELSE LET added == IF self.layers[tile.z_order + 1] = "None"
                          THEN Tilemap_add_layer(self, "Dense", tile.z_order).self
                          ELSE self
             IN  [st EXCEPT
                    !.self = added,
                    !.chunk_map =
                        IF chunk_point \in DOMAIN @
                        THEN [@ EXCEPT ![chunk_point] = Append(@, tile)]
                        ELSE MapInsert(@, chunk_point, <<tile>>)]

\* one step of the loop of sort_tiles_to_chunks: st holds the tilemap, the
\* chunk map built so far and the result
SortStep(st, tile) ==
    LET self == st.self
        chunk_point == point_to_chunk_point(tile.point)
        chunk_tile == [tile EXCEPT !.point = point_to_tile_point(tile.point)]
    IN  IF tile.z_order >= Len(self.layers)
        THEN [st EXCEPT !.res = Err("LayerDoesNotExist", tile.z_order)]
        ELSE LET added == IF self.layers[tile.z_order + 1] = "None"
                          THEN Tilemap_add_layer(self, "Dense", tile.z_order).self
                          ELSE self
             IN  [st EXCEPT
                    !.self = added,
                    !.chunk_map =
                        IF chunk_point \in DOMAIN @
                        THEN [@ EXCEPT ![chunk_point] = Append(@, chunk_tile)]
                        ELSE MapInsert(@, chunk_point, <<chunk_tile>>)]

RECURSIVE SortLoop(_, _, _)
SortLoop(st, tiles, i) ==
    IF i > Len(tiles) \/ st.res # Ok THEN st
    ELSE SortLoop(SortStep(st, tiles[i]), tiles, i + 1)

Tilemap_sort_tiles_to_chunks(self, tiles) ==
    SortLoop([self |-> self, chunk_map |-> <<>>, res |-> Ok], tiles, 1)

\* a faulty tile loop that names the z order of every tile, entity or not
RECURSIVE SetTiles_NamesAll(_, _, _)
SetTiles_NamesAll(st, tiles, i) ==
    IF i > Len(tiles) THEN st
    ELSE LET tile == tiles[i]
             chunk == Chunk_set_tile(st.chunk, encode_point_unchecked(tile.point), tile)
             entity == Chunk_get_entity(chunk, tile.z_order)
         IN  SetTiles_NamesAll(
                [chunk |-> chunk,
                 layers |-> MapOrInsert(st.layers, tile.z_order,
                                        IF entity # None THEN entity[1] ELSE NoEntity)],
                tiles, i + 1)

\* the tile loop of insert_tiles on one chunk: st holds the chunk and the
\* z order -> entity map of the event
RECURSIVE SetTiles(_, _, _)
SetTiles(st, tiles, i) ==
    IF i > Len(tiles) THEN st
    ELSE LET tile == tiles[i]
             chunk == Chunk_set_tile(st.chunk, encode_point_unchecked(tile.point), tile)
             entity == Chunk_get_entity(chunk, tile.z_order)
         IN  SetTiles([chunk |-> chunk,
                       layers |-> IF entity # None
                                  THEN MapOrInsert(st.layers, tile.z_order, entity[1])
                                  ELSE st.layers],
                      tiles, i + 1)

\* a faulty chunk loop that creates a missing chunk whatever the policy
RECURSIVE InsertLoop_AlwaysCreates(_, _, _, _)
InsertLoop_AlwaysCreates(self, chunk_map, order, i) ==
    IF i > Len(order) THEN Ret(self, Ok)
    ELSE LET chunk_point == order[i]
             chunk == IF chunk_point \in DOMAIN self.chunks
                      THEN self.chunks[chunk_point]
                      ELSE Chunk_new(chunk_point, layer_kinds(self))
             set == SetTiles([chunk |-> chunk, layers |-> <<>>],
                             chunk_map[chunk_point], 1)
         IN  InsertLoop_AlwaysCreates(
                [self EXCEPT
                    !.chunks = MapInsert(@, chunk_point, set.chunk),
                    !.chunk_events = Append(@, Modified(set.layers))],
                chunk_map, order, i + 1)

\* the chunk loop of insert_tiles, over the chunk map in the order `order`
RECURSIVE InsertLoop(_, _, _, _)
InsertLoop(self, chunk_map, order, i) ==
    IF i > Len(order) THEN Ret(self, Ok)
    ELSE LET chunk_point == order[i]
         IN  IF ~auto_chunk /\ chunk_point \notin DOMAIN self.chunks
             THEN Ret(self, MissingChunk)
             ELSE LET chunk == IF chunk_point \in DOMAIN self.chunks
                               THEN self.chunks[chunk_point]
                               ELSE Chunk_new(chunk_point, layer_kinds(self))
                      set == SetTiles([chunk |-> chunk, layers |-> <<>>],
                                      chunk_map[chunk_point], 1)
                  IN  InsertLoop(
                        [self EXCEPT
                            !.chunks = MapInsert(@, chunk_point, set.chunk),
                            !.chunk_events = Append(@, Modified(set.layers))],
                        chunk_map, order, i + 1)

Tilemap_insert_tiles(self, tiles, order) ==
    LET sorted == Tilemap_sort_tiles_to_chunks(self, tiles)
    IN  IF sorted.res # Ok THEN Ret(sorted.self, sorted.res)
        ELSE InsertLoop(sorted.self, sorted.chunk_map, order, 1)

\* the tile loop of clear_tiles on one chunk
RECURSIVE RemoveTiles(_, _, _)
RemoveTiles(st, tiles, i) ==
    IF i > Len(tiles) THEN st
    ELSE LET tile == tiles[i]
             chunk == Chunk_remove_tile(st.chunk, encode_point_unchecked(tile.point),
                                        tile.z_order)
             entity == Chunk_get_entity(chunk, tile.z_order)
         IN  RemoveTiles([chunk |-> chunk,
                          layers |-> IF entity # None
                                     THEN MapOrInsert(st.layers, tile.z_order, entity[1])
                                     ELSE st.layers],
                         tiles, i + 1)

\* the chunk loop of clear_tiles; ls is the one z order -> entity map of the call
RECURSIVE ClearLoop(_, _, _, _, _)
ClearLoop(self, chunk_map, order, i, ls) ==
    IF i > Len(order)
    THEN Ret([self EXCEPT !.chunk_events = Append(@, Modified(ls))], Ok)
    ELSE LET chunk_point == order[i]
         IN  IF chunk_point \notin DOMAIN self.chunks
             THEN Ret(self, MissingChunk)
             ELSE LET rem == RemoveTiles([chunk |-> self.chunks[chunk_point], layers |-> ls],
                                         chunk_map[chunk_point], 1)
                  IN  ClearLoop([self EXCEPT !.chunks[chunk_point] = rem.chunk],
                                chunk_map, order, i + 1, rem.layers)

Tilemap_clear_tiles(self, points, order) ==
    LET tiles == [i \in 1..Len(points) |->
                    [point |-> points[i][1], sprite_index |-> 0,
                     z_order |-> points[i][2], tint |-> 0]]
        sorted == Tilemap_sort_tiles_to_chunks(self, tiles)
    IN  IF sorted.res # Ok THEN Ret(sorted.self, sorted.res)
        ELSE ClearLoop(sorted.self, sorted.chunk_map, order, 1, <<>>)

Tilemap_get_tile(self, point, z_order) ==
    LET chunk_point == point_to_chunk_point(point)
        tile_point == point_to_tile_point(point)
    IN  IF chunk_point \notin DOMAIN self.chunks THEN None
        ELSE Chunk_get_tile(self.chunks[chunk_point], z_order,
                            encode_point_unchecked(tile_point))

\* the result of a method that returns an Option
OptionRes(o) == [tag |-> "Option", arg |-> o]

\* a faulty get_tile_mut that sends the event whether or not the layer has an entity
Tilemap_get_tile_mut_AlwaysEmits(self, point, z_order) ==
    LET chunk_point == point_to_chunk_point(point)
        tile_point == point_to_tile_point(point)
    IN  IF chunk_point \notin DOMAIN self.chunks THEN Ret(self, OptionRes(None))
        ELSE LET chunk == self.chunks[chunk_point]
                 index == encode_point_unchecked(tile_point)
                 entity == Chunk_get_entity(chunk, z_order)
             IN  Ret([self EXCEPT !.chunk_events =
                        Append(@, Modified(MapInsert(<<>>, z_order,
                            IF entity # None THEN entity[1] ELSE NoEntity)))],
                     OptionRes(Chunk_get_tile(chunk, z_order, index)))

Tilemap_get_tile_mut(self, point, z_order) ==
    LET chunk_point == point_to_chunk_point(point)
        tile_point == point_to_tile_point(point)
    IN  IF chunk_point \notin DOMAIN self.chunks THEN Ret(self, OptionRes(None))
        ELSE LET chunk == self.chunks[chunk_point]
                 index == encode_point_unchecked(tile_point)
                 entity == Chunk_get_entity(chunk, z_order)
             IN  Ret(IF entity # None
                     THEN [self EXCEPT !.chunk_events =
                            Append(@, Modified(MapInsert(<<>>, z_order, entity[1])))]
                     ELSE self,
                     OptionRes(Chunk_get_tile(chunk, z_order, index)))

\* Events::update, called once per frame
Tilemap_chunk_events_update(self) == [self EXCEPT !.chunk_events = <<>>]

(***************************************************************************)
(* The chunk system that consumes a Spawned event: it records the chunk as *)
(* spawned and hands every layer of the chunk its entity.                  *)
(***************************************************************************)
System_spawn_chunk(self, point) ==
    [self EXCEPT
        !.spawned = @ \cup {point},
        !.chunks[point].z_layers =
            [z \in 1..Len(@) |->
                [s \in 1..Len(@[z]) |->
                    IF @[z][s].kind = "None" THEN @[z][s]
                    ELSE [@[z][s] EXCEPT !.entity = s]]]]

(***************************************************************************)
(* Inputs.                                                                 *)
(***************************************************************************)
TilePoints == {Point2(x, 0) : x \in 0..TileRange}
ChunkPoints == {point_to_chunk_point(p) : p \in TilePoints}
ZOrders == 0..ZLayers
LayerKinds == {"Dense", "Sparse"}
Tiles ==
    [point : TilePoints, z_order : ZOrders, sprite_index : 1..MaxSprite, tint : {1}]
SeqsUpTo(S, n) == UNION {[1..k -> S] : k \in 1..n}
ChunkPointsOf(tiles) == {point_to_chunk_point(tiles[i].point) : i \in 1..Len(tiles)}

(***************************************************************************)
(* The state machine: one action per call on the tilemap.                  *)
(***************************************************************************)
Running == op.res.tag # "panic" /\ calls < MaxCalls

Call(name, args, r, es) ==
    /\ layers' = r.self.layers
    /\ chunks' = r.self.chunks
    /\ spawned' = r.self.spawned
    /\ chunk_events' = r.self.chunk_events
    /\ op' = [name |-> name, args |-> args, res |-> r.res]
    /\ calls' = calls + 1
    /\ ever_spawned' = es
    /\ UNCHANGED <<dimensions, auto_chunk>>
    /\ UNCHANGED <<layer_vars, coord_vars>>

\* two fresh layers of the size of a chunk, no call made on them
LayerInit ==
    /\ dense = NewSpriteLayer("Dense")
    /\ sparse = NewSpriteLayer("Sparse")
    /\ layer_op = [name |-> "new", index |-> 0, tile |-> RawTile(0, 0)]

\* no conversion asked for
CoordIdle ==
    /\ coord_dim = [width |-> 1, height |-> 1]
    /\ coord_trail = <<>>

Init ==
    /\ layers \in [1..ZLayers -> {"None"} \cup LayerKinds]
    /\ chunks = <<>>
    /\ spawned = {}
    /\ chunk_events = <<>>
    /\ dimensions \in {None, Some([width |-> MapWidth, height |-> MapHeight])}
    /\ auto_chunk \in BOOLEAN
    /\ op = [name |-> "new", args |-> <<>>, res |-> Ok]
    /\ calls = 0
    /\ ever_spawned = {}
    /\ LayerInit
    /\ CoordIdle

insert_chunk ==
    /\ Running
    /\ \E point \in ChunkPoints :
        LET r == Tilemap_insert_chunk(Self, point)
        IN  Call("insert_chunk", <<point>>, r,
                 IF r.res.tag = "DimensionError" THEN ever_spawned
                 ELSE ever_spawned \ {point})

add_layer ==
    /\ Running
    /\ \E kind \in LayerKinds, z \in ZOrders :
        Call("add_layer", <<kind, z>>, Tilemap_add_layer(Self, kind, z), ever_spawned)

move_layer ==
    /\ Running
    /\ \E from_z \in ZOrders, to_z \in ZOrders :
        Call("move_layer", <<from_z, to_z>>, Tilemap_move_layer(Self, from_z, to_z), ever_spawned)

remove_layer ==
    /\ Running
    /\ \E z \in ZOrders :
        Call("remove_layer", <<z>>, Tilemap_remove_layer(Self, z), ever_spawned)

spawn_chunk ==
    /\ Running
    /\ \E point \in ChunkPoints :
        Call("spawn_chunk", <<point>>, Tilemap_spawn_chunk(Self, point), ever_spawned)

despawn_chunk ==
    /\ Running
    /\ \E point \in ChunkPoints :
        Call("despawn_chunk", <<point>>, Tilemap_despawn_chunk(Self, point), ever_spawned)

remove_chunk ==
    /\ Running
    /\ \E point \in ChunkPoints :
        LET r == Tilemap_remove_chunk(Self, point)
        IN  Call("remove_chunk", <<point>>, r,
                 IF r.res = Ok THEN ever_spawned \ {point} ELSE ever_spawned)

insert_tiles ==
    /\ Running
    /\ \E tiles \in SeqsUpTo(Tiles, MaxBatch) :
        \E order \in Orders(ChunkPointsOf(tiles)) :
            Call("insert_tiles", <<Len(tiles)>>, Tilemap_insert_tiles(Self, tiles, order),
                 ever_spawned)

clear_tiles ==
    /\ Running
    /\ \E points \in SeqsUpTo(TilePoints \X ZOrders, MaxBatch) :
        \E order \in Orders({point_to_chunk_point(points[i][1]) : i \in 1..Len(points)}) :
            Call("clear_tiles", <<Len(points)>>, Tilemap_clear_tiles(Self, points, order),
                 ever_spawned)

get_tile_mut ==
    /\ Running
    /\ \E point \in TilePoints, z \in ZOrders :
        Call("get_tile_mut", <<point, z>>, Tilemap_get_tile_mut(Self, point, z), ever_spawned)

chunk_events_update ==
    /\ Running
    /\ chunk_events # <<>>
    /\ Call("chunk_events_update", <<>>, Ret(Tilemap_chunk_events_update(Self), Ok),
            ever_spawned)

system_spawn_chunk ==
    /\ Running
    /\ \E point \in DOMAIN chunks :
        /\ point \notin spawned
        /\ Call("system_spawn_chunk", <<point>>, Ret(System_spawn_chunk(Self, point), Ok),
                ever_spawned \cup {point})

Next ==
    \/ insert_chunk
    \/ add_layer
    \/ move_layer
    \/ remove_layer
    \/ spawn_chunk
    \/ despawn_chunk
    \/ remove_chunk
    \/ insert_tiles
    \/ clear_tiles
    \/ get_tile_mut
    \/ chunk_events_update
    \/ system_spawn_chunk

Spec == Init /\ [][Next]_vars

(***************************************************************************)
(* The two layer storages on their own: the same calls on a Dense and on a *)
(* Sparse layer of the size of a chunk.                                    *)
(***************************************************************************)
\* a tilemap nothing is called on
TilemapIdle ==
    /\ layers = [i \in 1..ZLayers |-> "None"]
    /\ chunks = <<>>
    /\ spawned = {}
    /\ chunk_events = <<>>
    /\ dimensions = None
    /\ auto_chunk = FALSE
    /\ op = [name |-> "new", args |-> <<>>, res |-> Ok]
    /\ calls = 0
    /\ ever_spawned = {}

\* indices handed to the layers: every index of the layer and the first one past it
LayerIndices == 0..ChunkArea
\* tiles handed to the layers: alpha 0 is the "no tile" sentinel
LayerTiles == {RawTile(index, a) : index \in 0..MaxSprite, a \in {0, 1}}

LayerCall(name, index, tile, d, s) ==
    /\ dense' = d
    /\ sparse' = s
    /\ layer_op' = [name |-> name, index |-> index, tile |-> tile]
    /\ UNCHANGED <<tilemap_vars, coord_vars>>

layer_set_tile ==
    \E index \in LayerIndices, tile \in LayerTiles :
        LayerCall("set_tile", index, tile,
                  Dense_set_tile(dense, index, tile), Sparse_set_tile(sparse, index, tile))

layer_remove_tile ==
    \E index \in LayerIndices :
        LayerCall("remove_tile", index, RawTile(0, 0),
                  Dense_remove_tile(dense, index), Sparse_remove_tile(sparse, index))

LayerNext ==
    \/ layer_set_tile
    \/ layer_remove_tile

LayerSpecInit == TilemapIdle /\ LayerInit /\ CoordIdle

LayerSpec == LayerSpecInit /\ [][LayerNext]_vars

(***************************************************************************)
(* The coordinate conversions on their own: an input is drawn, and the     *)
(* conversions that take its type are applied to it, one after another.    *)
(***************************************************************************)
CoordDims == [width : 1..MaxDim, height : 1..MaxDim]

CoordPoints ==
    (-PointRange..PointRange) \cup
    {s * (2^(F32_MANTISSA_DIGITS - j) + k) : s \in {-1, 1}, j \in {0, 1}, k \in 0..PointRange}

CoordValue(fn, tag, val) == [fn |-> fn, tag |-> tag, val |-> val]

CoordInputs(dim) ==
    {CoordValue("input", "usize", i) : i \in 0..(dim.width * dim.height * MaxDepth - 1)}
    \cup {CoordValue("input", "Vec2", Vec2(F32_from(x), F32_from(y))) :
            x \in 0..(dim.width - 1), y \in 0..(dim.height - 1)}
    \cup {CoordValue("input", "Point2", Point2(x, y)) : x \in CoordPoints, y \in CoordPoints}

CoordInit ==
    /\ TilemapIdle
    /\ LayerInit
    /\ coord_dim \in CoordDims
    /\ \E input \in CoordInputs(coord_dim) : coord_trail = <<input>>

CoordLast == coord_trail[Len(coord_trail)]
coord_width == F32_from(coord_dim.width)
coord_height == F32_from(coord_dim.height)

CoordApplies(tag) ==
    /\ coord_trail # <<>>
    /\ Len(coord_trail) < MaxTrail
    /\ CoordLast.tag = tag

CoordStep(fn, tag, val) ==
    /\ coord_trail' = Append(coord_trail, CoordValue(fn, tag, val))
    /\ UNCHANGED <<coord_dim, tilemap_vars, layer_vars>>

apply_to_coord2 ==
    /\ CoordApplies("usize")
    /\ CoordStep("to_coord2", "Vec2", usize_to_coord2(CoordLast.val, coord_width, coord_height))

apply_to_coord3 ==
    /\ CoordApplies("usize")
    /\ CoordStep("to_coord3", "Vec3", usize_to_coord3(CoordLast.val, coord_width, coord_height))

apply_Vec2_to_index ==
    /\ CoordApplies("Vec2")
    /\ CoordStep("to_index", "usize", Vec2_to_index(CoordLast.val, coord_width, coord_height))

apply_Vec3_to_index ==
    /\ CoordApplies("Vec3")
    /\ CoordStep("to_index", "usize", Vec3_to_index(CoordLast.val, coord_width, coord_height))

apply_point_to_chunk_point ==
    /\ CoordApplies("Point2")
    /\ CoordStep("point_to_chunk_point", "ChunkPoint",
                 Dim_point_to_chunk_point(coord_dim, CoordLast.val))

apply_point_to_tile_point ==
    /\ CoordApplies("Point2")
    /\ CoordStep("point_to_tile_point", "TilePoint",
                 Dim_point_to_tile_point(coord_dim, CoordLast.val))

CoordNext ==
    \/ apply_to_coord2
    \/ apply_to_coord3
    \/ apply_Vec2_to_index
    \/ apply_Vec3_to_index
    \/ apply_point_to_chunk_point
    \/ apply_point_to_tile_point

CoordSpec == CoordInit /\ [][CoordNext]_vars

TypeOK ==
    /\ Len(layers) = ZLayers
    /\ spawned \subseteq ChunkPoints

(***************************************************************************)
(* Vocabulary of the properties.  A property of a call is stated in every  *)
(* reachable state, for every input of the call: Self is the tilemap       *)
(* before the call, the operator's value the tilemap after it.             *)
(***************************************************************************)
Batches == SeqsUpTo(Tiles, MaxBatch)
ZOrdersOf(tiles) == {tiles[i].z_order : i \in 1..Len(tiles)}

InBounds(point) == dimensions = None \/ check_point(dimensions[1], point)

\* the queue after a call keeps the events queued before it
KeepsQueue(after) ==
    /\ Len(after.chunk_events) >= Len(chunk_events)
    /\ SubSeq(after.chunk_events, 1, Len(chunk_events)) = chunk_events
\* the events a call appended
NewEvents(after) ==
    SubSeq(after.chunk_events, Len(chunk_events) + 1, Len(after.chunk_events))

LastEvent == chunk_events[Len(chunk_events)]

\* the layer at slot z_order of the first depth of a chunk holds an entity
HasEntity(chunk, z_order) ==
    /\ z_order < Len(chunk.z_layers[1])
    /\ chunk.z_layers[1][z_order + 1].entity # NoEntity

(***************************************************************************)
(* C1: one successful insert_tiles call appends exactly one Modified       *)
(* event, however many destination chunks the batch has.                   *)
(***************************************************************************)
C1_OneModifiedPerCall ==
    \A tiles \in Batches : \A order \in Orders(ChunkPointsOf(tiles)) :
        LET r == Tilemap_insert_tiles(Self, tiles, order)
        IN  r.res = Ok =>
                /\ KeepsQueue(r.self)
                /\ Len(NewEvents(r.self)) = 1
                /\ NewEvents(r.self)[1].type = "Modified"

C3_TableAndChunksAgree ==
    \A p \in DOMAIN chunks :
        \A z \in 1..Len(chunks[p].z_layers) :
            /\ Len(chunks[p].z_layers[z]) = Len(layers)
            /\ \A s \in 1..Len(layers) :
                (chunks[p].z_layers[z][s].kind # "None") <=> (layers[s] # "None")

(***************************************************************************)
(* C4: two consecutive spawn_chunk calls on an in-bounds point that holds *)
(* a chunk and is not spawned append exactly one Spawned event for the     *)
(* point in total.                                                         *)
(***************************************************************************)
C4_SpawnIdempotent ==
    \A p \in ChunkPoints :
        LET first == Tilemap_spawn_chunk(Self, p)
            second == Tilemap_spawn_chunk(first.self, p)
        IN  (InBounds(p) /\ p \in DOMAIN chunks /\ p \notin spawned) =>
                /\ first.res = Ok /\ second.res = Ok
                /\ NewEvents(second.self) = <<Spawned(p)>>

C6_DespawnUnspawnedNoOp ==
    \A p \in ChunkPoints :
        (InBounds(p) /\ p \notin spawned) =>
            Tilemap_despawn_chunk(Self, p) = Ret(Self, Ok)

(***************************************************************************)
(* C7: remove_chunk on an in-bounds point with a chunk appends a Despawned *)
(* event for the point carrying the chunk's entities, and afterwards the   *)
(* point is neither in the chunk map nor in the spawned set.               *)
(***************************************************************************)
C7_RemoveDespawnsFirst ==
    \A p \in ChunkPoints :
        LET r == Tilemap_remove_chunk(Self, p)
            new == NewEvents(r.self)
        IN  (InBounds(p) /\ p \in DOMAIN chunks) =>
                /\ r.res = Ok
                /\ KeepsQueue(r.self)
                /\ Len(new) = 1
                /\ new[1].type = "Despawned" /\ new[1].point = p
                /\ \A z \in 1..Len(chunks[p].z_layers) :
                    \A s \in 1..Len(chunks[p].z_layers[z]) :
                        chunks[p].z_layers[z][s].entity # NoEntity =>
                            chunks[p].z_layers[z][s].entity \in new[1].entities
                /\ ~Tilemap_contains_chunk(r.self, p)
                /\ p \notin r.self.spawned

C7_Witness ==
    /\ op.name = "remove_chunk"
    /\ op.res = Ok
    /\ op.args[1] \notin DOMAIN chunks
    /\ op.args[1] \notin spawned
    /\ chunk_events # <<>>
    /\ LastEvent.type = "Despawned"
    /\ LastEvent.point = op.args[1]
    /\ LastEvent.entities # {}

(***************************************************************************)
(* C8: despawn_chunk retains chunk data: the chunk at the point still      *)
(* exists afterwards and get_tile returns what it returned before, for     *)
(* every point and z order.                                                *)
(***************************************************************************)
C8_DespawnKeepsTiles ==
    \A p \in DOMAIN chunks :
        LET r == Tilemap_despawn_chunk(Self, p)
        IN  /\ Tilemap_contains_chunk(r.self, p)
            /\ \A tp \in TilePoints, z \in ZOrders :
                Tilemap_get_tile(r.self, tp, z) = Tilemap_get_tile(Self, tp, z)

C8_Witness ==
    /\ op.name = "despawn_chunk"
    /\ op.res = Ok
    /\ op.args[1] \in DOMAIN chunks
    /\ \E tp \in TilePoints, z \in ZOrders :
        /\ point_to_chunk_point(tp) = op.args[1]
        /\ Tilemap_get_tile(Self, tp, z) # None

(***************************************************************************)
(* C9: spawn_chunk on an in-bounds point at which no chunk exists appends  *)
(* no event and changes nothing.                                           *)
(***************************************************************************)
C9_SpawnMissingChunkNoOp ==
    \A p \in ChunkPoints :
        (InBounds(p) /\ p \notin DOMAIN chunks) =>
            Tilemap_spawn_chunk(Self, p).self = Self

C11_MoveToConfigured ==
    \A from_z \in ZOrders, to_z \in ZOrders :
        (to_z < Len(layers) /\ layers[to_z + 1] # "None") =>
            Tilemap_move_layer(Self, from_z, to_z) = Ret(Self, Err("LayerExists", to_z))

C11_Witness ==
    /\ op.name = "move_layer"
    /\ op.res.tag = "LayerExists"
    /\ op.args[1] # op.args[2]
    /\ op.args[1] < Len(layers)
    /\ layers[op.args[1] + 1] # "None"
    /\ \E tp \in TilePoints, z \in ZOrders : Tilemap_get_tile(Self, tp, z) # None

(***************************************************************************)
(* C12: move_layer from a z order that holds no configured layer (to a     *)
(* destination that is free) returns LayerDoesNotExist(from) and changes   *)
(* nothing.                                                                *)
(***************************************************************************)
C12_MoveFromUnconfigured ==
    \A from_z \in ZOrders, to_z \in ZOrders :
        (/\ from_z >= Len(layers) \/ layers[from_z + 1] = "None"
         /\ to_z >= Len(layers) \/ layers[to_z + 1] = "None") =>
            Tilemap_move_layer(Self, from_z, to_z) =
                Ret(Self, Err("LayerDoesNotExist", from_z))


(***************************************************************************)
(* C13: insert_chunk on an in-bounds point that holds a chunk returns      *)
(* ChunkAlreadyExists(point); on a free in-bounds point it returns Ok and  *)
(* the chunk exists afterwards, with ChunkDepth depths, each with one slot *)
(* per table entry holding a layer of the table's kind exactly where the   *)
(* table configures one, and no tile.                                      *)
(***************************************************************************)
C13_InsertChunk ==
    \A p \in ChunkPoints :
        LET r == Tilemap_insert_chunk(Self, p)
        IN  InBounds(p) =>
                IF p \in DOMAIN chunks
                THEN r.res = Err("ChunkAlreadyExists", p)
                ELSE /\ r.res = Ok
                     /\ Tilemap_contains_chunk(r.self, p)
                     /\ Len(r.self.chunks[p].z_layers) = ChunkDepth
                     /\ \A z \in 1..ChunkDepth :
                            /\ Len(r.self.chunks[p].z_layers[z]) = Len(layers)
                            /\ \A s \in 1..Len(layers) :
                                r.self.chunks[p].z_layers[z][s].kind = layers[s]
                     /\ \A s \in 0..(Len(layers) - 1), i \in 0..(ChunkArea - 1) :
                            Chunk_get_tile(r.self.chunks[p], s, i) = None
                     /\ \A q \in DOMAIN chunks : r.self.chunks[q] = chunks[q]

C13_Witness ==
    /\ op.name = "insert_chunk"
    /\ op.res = Err("ChunkAlreadyExists", op.args[1])
    /\ op.args[1] \in DOMAIN chunks
    /\ \E s \in 1..Len(layers) : layers[s] # "None"

(***************************************************************************)
(* C14: in a tilemap with bounded dimensions, insert_chunk, spawn_chunk,   *)
(* despawn_chunk and remove_chunk on a chunk point outside the bounds      *)
(* return a DimensionError and change nothing.                             *)
(***************************************************************************)
C14_OutOfBoundsNoEffect ==
    \A p \in ChunkPoints :
        (dimensions # None /\ ~check_point(dimensions[1], p)) =>
            /\ Tilemap_insert_chunk(Self, p) = Ret(Self, Err("DimensionError", p))
            /\ Tilemap_spawn_chunk(Self, p) = Ret(Self, Err("DimensionError", p))
            /\ Tilemap_despawn_chunk(Self, p) = Ret(Self, Err("DimensionError", p))
            /\ Tilemap_remove_chunk(Self, p) = Ret(Self, Err("DimensionError", p))

C14_Witness ==
    /\ op.name \in {"insert_chunk", "spawn_chunk", "despawn_chunk", "remove_chunk"}
    /\ op.res.tag = "DimensionError"
    /\ dimensions # None
    /\ DOMAIN chunks # {}
    /\ chunk_events # <<>>


(***************************************************************************)
(* C15: in a tilemap with bounded dimensions, every chunk point of the     *)
(* chunk map lies within the bounds.                                       *)
(***************************************************************************)
C15_ChunksInBounds ==
    dimensions # None => \A p \in DOMAIN chunks : check_point(dimensions[1], p)

ProbePoints == {Point2(x, 0) : x \in -1..(TileRange + 1)}
ProbeTiles ==
    [point : ProbePoints, z_order : ZOrders, sprite_index : 1..(MaxSprite + 1), tint : {1}]

(***************************************************************************)
(* C17: with auto-chunk enabled, insert_tiles of one tile at a point p     *)
(* whose chunk does not exist (and lies within the bounds) and at a z      *)
(* order z of the layer table succeeds and creates the chunk at            *)
(* point_to_chunk_point(p); afterwards get_tile(p, z) is the RawTile with  *)
(* the tile's sprite index and tint, get_tile is nothing everywhere else   *)
(* in the new chunk and unchanged at every other point.                    *)
(***************************************************************************)
C17_AutoChunkInsert ==
    \A tile \in ProbeTiles :
        LET cp == point_to_chunk_point(tile.point)
            r == Tilemap_insert_tiles(Self, <<tile>>, <<cp>>)
        IN  (/\ auto_chunk
             /\ cp \notin DOMAIN chunks
             /\ InBounds(cp)
             /\ tile.z_order < Len(layers)) =>
                /\ r.res = Ok
                /\ DOMAIN r.self.chunks = DOMAIN chunks \cup {cp}
                /\ Tilemap_get_tile(r.self, tile.point, tile.z_order)
                        = Some(RawTile(tile.sprite_index, tile.tint))
                /\ \A q \in ProbePoints, z \in ZOrders :
                        <<q, z>> # <<tile.point, tile.z_order>> =>
                            /\ Tilemap_get_tile(r.self, q, z) = Tilemap_get_tile(Self, q, z)
                            /\ point_to_chunk_point(q) = cp =>
                                    Tilemap_get_tile(r.self, q, z) = None

C17_Witness ==
    /\ op.name = "insert_tiles"
    /\ op.res = Ok
    /\ op.args[1] = 1
    /\ auto_chunk
    /\ calls = 1
    /\ \E p \in TilePoints, q \in ProbePoints, z \in ZOrders :
        /\ q # p
        /\ point_to_chunk_point(q) = point_to_chunk_point(p)
        /\ Tilemap_contains_chunk(Self, point_to_chunk_point(p))
        /\ Tilemap_get_tile(Self, p, z) # None
        /\ Tilemap_get_tile(Self, q, z) = None


(***************************************************************************)
(* C18: insert_tiles of a batch with a z order outside the layer table, or *)
(* with a z order whose table slot is unconfigured while the               *)
(* auto-configure policy is off, fails with LayerDoesNotExist.             *)
(***************************************************************************)
C18_AutoConfigurePolicy ==
    \A tiles \in Batches : \A order \in Orders(ChunkPointsOf(tiles)) :
        LET r == Tilemap_insert_tiles(Self, tiles, order)
        IN  (\E z \in ZOrdersOf(tiles) :
                \/ z >= Len(layers)
                \/ layers[z + 1] = "None" /\ ~auto_configure) =>
                    r.res.tag = "LayerDoesNotExist"

(***************************************************************************)
(* C19: when insert_tiles rejects a batch with LayerDoesNotExist, no chunk *)
(* has been mutated or created and no event has been appended.             *)
(***************************************************************************)
C19_AtomicLayerFailure ==
    \A tiles \in Batches : \A order \in Orders(ChunkPointsOf(tiles)) :
        LET r == Tilemap_insert_tiles(Self, tiles, order)
        IN  r.res.tag = "LayerDoesNotExist" =>
                /\ r.self.chunks = chunks
                /\ r.self.chunk_events = chunk_events


(***************************************************************************)
(* C20: when the two tiles of a batch target the same point and z order,   *)
(* after a successful insert_tiles get_tile there returns the RawTile of   *)
(* the later tile.                                                         *)
(***************************************************************************)
C20_LastWriteWins ==
    \A t1 \in ProbeTiles, t2 \in ProbeTiles :
        LET cp == point_to_chunk_point(t1.point)
            r == Tilemap_insert_tiles(Self, <<t1, t2>>, <<cp>>)
        IN  (t1.point = t2.point /\ t1.z_order = t2.z_order /\ r.res = Ok) =>
                Tilemap_get_tile(r.self, t2.point, t2.z_order)
                    = Some(RawTile(t2.sprite_index, t2.tint))


(***************************************************************************)
(* C21: after a successful clear_tiles over a batch of (point, z order)    *)
(* pairs, get_tile returns nothing for every pair of the batch and what it *)
(* returned before for every other pair.  Stated for every call made on a  *)
(* running tilemap.                                                        *)
(***************************************************************************)
ProbePairs == ProbePoints \X ZOrders

\* get_tile after a clear of `batch`, against get_tile now
ClearedExactly(after, batch) ==
    \A pair \in ProbePairs :
        Tilemap_get_tile(after, pair[1], pair[2]) =
            IF pair \in batch THEN None
            ELSE Tilemap_get_tile(Self, pair[1], pair[2])

ClearTilesPost(r, batch) == r.res = Ok => ClearedExactly(r.self, batch)

C21_ClearTiles ==
    Running =>
        \A points \in SeqsUpTo(ProbePairs, MaxBatch) :
            \A order \in Orders({point_to_chunk_point(points[i][1]) : i \in 1..Len(points)}) :
                ClearTilesPost(Tilemap_clear_tiles(Self, points, order),
                               {points[i] : i \in 1..Len(points)})

C21_Witness ==
    /\ op.name = "clear_tiles"
    /\ op.res = Ok
    /\ \E pair \in ProbePairs : Tilemap_get_tile(Self, pair[1], pair[2]) # None
    /\ \E p \in DOMAIN chunks :
        \E s \in 1..Len(chunks[p].z_layers[1]) :
            /\ chunks[p].z_layers[1][s].kind = "Dense"
            /\ \E i \in 1..ChunkArea :
                /\ chunks[p].z_layers[1][s].tiles[i].a = 0
                /\ chunks[p].z_layers[1][s].tiles[i].index # 0


\* ---------------------------------------------------------------------
\* C22: get_tile_mut on a point whose chunk exists appends a Modified
\* event naming the z order, on every call, whether or not the chunk's
\* layer has been spawned.
\* As stated it fails: the event is sent only inside
\* `if let Some(entity) = chunk.get_entity(z_order)`.
GetTileMutEmits(r, z_order) ==
    /\ Len(NewEvents(r.self)) = 1
    /\ NewEvents(r.self)[1].type = "Modified"
    /\ DOMAIN NewEvents(r.self)[1].layers = {z_order}

C22_GetTileMutAlwaysEmits ==
    \A point \in ProbePoints, z \in ZOrders :
        point_to_chunk_point(point) \in DOMAIN chunks =>
            GetTileMutEmits(Tilemap_get_tile_mut(Self, point, z), z)

\* C22 (amended): get_tile_mut on a point whose chunk exists appends one
\* Modified event naming the z order and its entity when the chunk's
\* layer at that z order holds an entity, and sends nothing otherwise;
\* the event is sent on every such call, before any write happens, and
\* nothing but the queue changes.
GetTileMutPost(r, chunk, z_order) ==
    /\ KeepsQueue(r.self)
    /\ [r.self EXCEPT !.chunk_events = Self.chunk_events] = Self
    /\ IF HasEntity(chunk, z_order)
       THEN /\ GetTileMutEmits(r, z_order)
            /\ NewEvents(r.self)[1].layers[z_order] = Chunk_get_entity(chunk, z_order)[1]
       ELSE NewEvents(r.self) = <<>>

C22_GetTileMutEmitsIfSpawned ==
    \A point \in ProbePoints, z \in ZOrders :
        point_to_chunk_point(point) \in DOMAIN chunks =>
            GetTileMutPost(Tilemap_get_tile_mut(Self, point, z),
                           chunks[point_to_chunk_point(point)], z)

C22_Witness ==
    /\ op.name = "get_tile_mut"
    /\ Len(chunk_events) > 0
    /\ chunk_events[Len(chunk_events)].type = "Modified"
    /\ DOMAIN chunk_events[Len(chunk_events)].layers = {op.args[2]}
    /\ point_to_chunk_point(op.args[1]) \in DOMAIN chunks
    /\ HasEntity(chunks[point_to_chunk_point(op.args[1])], op.args[2])


\* ---------------------------------------------------------------------
\* C23: after any sequence of set_tile / remove_tile calls (a set with
\* alpha 0 included) made alike on a Dense and on a Sparse layer of the
\* same size, get_tile agrees on the two at every index of the layer.
C23_DenseSparseAgree ==
    \A index \in 0..(ChunkArea - 1) :
        Dense_get_tile(dense, index) = Sparse_get_tile(sparse, index)

\* ---------------------------------------------------------------------
\* C24: a Sparse set_tile with a tile of alpha 0 removes the entry
\* instead of inserting it: afterwards the index is not among the
\* occupied indices and get_tile returns nothing for it.
C24_SparseZeroAlphaRemoves ==
    (layer_op.name = "set_tile" /\ layer_op.tile.a = 0) =>
        /\ layer_op.index \notin Sparse_get_tile_indices(sparse)
        /\ Sparse_get_tile(sparse, layer_op.index) = None

\* ---------------------------------------------------------------------
\* C25: the attributes of an empty Sparse layer are 4 * area zero index
\* entries and 4 * area zero colours; setting one tile at an index
\* k < area gives the entries 4k .. 4k+4 of both arrays the tile's sprite
\* index and colour and changes no other entry, whatever the order in
\* which the map iterates.
AttributesWindow(before, after, k, tile) ==
    /\ DOMAIN after.tile_indexes = 1..(ChunkArea * 4)
    /\ DOMAIN after.tile_colors = 1..(ChunkArea * 4)
    /\ \A j \in 1..(ChunkArea * 4) :
        IF (j - 1) \div 4 = k
        THEN after.tile_indexes[j] = tile.index /\ after.tile_colors[j] = tile.a
        ELSE /\ after.tile_indexes[j] = before.tile_indexes[j]
             /\ after.tile_colors[j] = before.tile_colors[j]

C25_SparseAttributes ==
    /\ Sparse_tiles_to_attributes(SparseLayer_new(<<>>), ChunkArea, <<>>)
            = ZeroAttributes(ChunkArea)
    /\ \A k \in 0..(ChunkArea - 1), tile \in LayerTiles :
        \A before \in Orders(DOMAIN sparse.tiles) :
            \A after \in Orders(DOMAIN Sparse_set_tile(sparse, k, tile).tiles) :
                AttributesWindow(
                    Sparse_tiles_to_attributes(sparse, ChunkArea, before),
                    Sparse_tiles_to_attributes(Sparse_set_tile(sparse, k, tile), ChunkArea, after),
                    k, tile)

\* one tile with a sprite index and a colour was set in an empty layer,
\* not at index 0, and its window alone is written
C25_Witness ==
    /\ layer_op.name = "set_tile"
    /\ layer_op.index > 0 /\ layer_op.index < ChunkArea
    /\ layer_op.tile.index # 0 /\ layer_op.tile.a # 0
    /\ DOMAIN sparse.tiles = {layer_op.index}
    /\ LET attributes == Sparse_tiles_to_attributes(sparse, ChunkArea, <<layer_op.index>>)
       IN  /\ attributes.tile_indexes[4 * layer_op.index + 1] = layer_op.tile.index
           /\ attributes.tile_indexes[4 * layer_op.index] = 0

\* ---------------------------------------------------------------------
\* C26: for every width, height >= 1 and every (x, y) with 0 <= x < width
\* and 0 <= y < height, the index of (x, y) converted back to a
\* coordinate is (x, y).
C26_RoundTrip2 ==
    (/\ Len(coord_trail) = 3
     /\ coord_trail[1].tag = "Vec2"
     /\ coord_trail[2].fn = "to_index"
     /\ coord_trail[3].fn = "to_coord2") =>
        coord_trail[3].val = coord_trail[1].val

\* ---------------------------------------------------------------------
\* C27: for every index i in [0, width * height * depth), the index of
\* the 3D coordinate of i is i.
C27_RoundTrip3 ==
    (/\ Len(coord_trail) = 3
     /\ coord_trail[1].tag = "usize"
     /\ coord_trail[2].fn = "to_coord3"
     /\ coord_trail[3].fn = "to_index") =>
        coord_trail[3].val = coord_trail[1].val

\* ---------------------------------------------------------------------
\* C28: for every integer tile point p and chunk dimension dim, each
\* axis of point_to_chunk_point is floor((p + dim/2) / dim), negative
\* coordinates included.
FloorCentred(p, dim) == (2 * p + dim) \div (2 * dim)

C28_ChunkPointIsFloor ==
    (/\ Len(coord_trail) = 2
     /\ coord_trail[2].fn = "point_to_chunk_point") =>
        coord_trail[2].val =
            Point2(FloorCentred(coord_trail[1].val[1], coord_dim.width),
                   FloorCentred(coord_trail[1].val[2], coord_dim.height))

\* ---------------------------------------------------------------------
\* C29: for every tile point p and every chunk dimension, even or odd,
\* the local point p - dim * chunk_point + dim/2 lies in [0, dim) on each
\* axis.
C29_TilePointInChunk ==
    (/\ Len(coord_trail) = 2
     /\ coord_trail[2].fn = "point_to_tile_point") =>
        /\ 0 <= coord_trail[2].val[1] /\ coord_trail[2].val[1] < coord_dim.width
        /\ 0 <= coord_trail[2].val[2] /\ coord_trail[2].val[2] < coord_dim.height

\* ---------------------------------------------------------------------
\* C30: move_layer and remove_layer never panic, whatever z orders they
\* are given and however often they are called while chunks exist.
C30_LayerCallsNeverPanic ==
    op.name \in {"move_layer", "remove_layer"} => op.res.tag # "panic"


(***************************************************************************)
(* C31: remove_layer(z) on a z order at which no layer is configured does  *)
(* nothing: the layer table, and the layers and tiles at every other slot  *)
(* of every chunk, are unchanged.                                          *)
(***************************************************************************)
OtherSlotsKept(after, z) ==
    \A p \in DOMAIN chunks :
        /\ p \in DOMAIN after.chunks
        /\ \A d \in 1..Len(chunks[p].z_layers) :
            \A s \in 1..Len(chunks[p].z_layers[d]) :
                s # z + 1 =>
                    /\ s <= Len(after.chunks[p].z_layers[d])
                    /\ after.chunks[p].z_layers[d][s] = chunks[p].z_layers[d][s]

C31_RemoveUnconfiguredNoOp ==
    \A z \in ZOrders :
        (z >= Len(layers) \/ layers[z + 1] = "None") =>
            LET r == Tilemap_remove_layer(Self, z)
            IN  /\ r.res = Ok
                /\ r.self.layers = layers
                /\ OtherSlotsKept(r.self, z)


(***************************************************************************)
(* C32: the event queue is append-then-drain.  Every call but              *)
(* chunk_events_update keeps the queued events, in their order, and puts   *)
(* its own events after them; a step that discards events is a            *)
(* chunk_events_update.                                                    *)
(***************************************************************************)
QueueExtended ==
    /\ Len(chunk_events') >= Len(chunk_events)
    /\ SubSeq(chunk_events', 1, Len(chunk_events)) = chunk_events

C32_AppendThenDrain ==
    [][IF op'.name = "chunk_events_update"
       THEN chunk_events' = <<>>
       ELSE QueueExtended]_vars

\* two mutating calls in a row, and the queue holds their events in call order
C32_Witness ==
    /\ op.name = "despawn_chunk"
    /\ Len(chunk_events) = 2
    /\ chunk_events[1].type = "Spawned"
    /\ chunk_events[2].type = "Despawned"


(***************************************************************************)
(* C33: removing a slot a chunk has removes it at every depth: the chunk   *)
(* keeps its depths, every depth has one slot fewer, the slots below the   *)
(* removed one stay and the slots above it move down by one.               *)
(***************************************************************************)
HasSlot(chunk, slot) ==
    \A d \in 1..Len(chunk.z_layers) : slot < Len(chunk.z_layers[d])

C33_ChunkRemoveLayer ==
    \A p \in DOMAIN chunks : \A slot \in ZOrders :
        HasSlot(chunks[p], slot) =>
            LET before == chunks[p].z_layers
                r == Chunk_remove_layer(chunks[p], slot)
                after == r.chunk.z_layers
            IN  /\ ~r.panic
                /\ Len(after) = Len(before)
                /\ \A d \in 1..Len(before) :
                    /\ Len(after[d]) = Len(before[d]) - 1
                    /\ \A s \in 1..Len(after[d]) :
                        after[d][s] = IF s < slot + 1 THEN before[d][s] ELSE before[d][s + 1]

\* remove_layer(0) has run on a chunk: every depth is left with the slot that
\* was above it, now the first
C33_Witness ==
    /\ op.name = "remove_layer"
    /\ op.args = <<0>>
    /\ op.res = Ok
    /\ \E p \in DOMAIN chunks :
        /\ Len(chunks[p].z_layers) = ChunkDepth
        /\ \A d \in 1..ChunkDepth :
            /\ Len(chunks[p].z_layers[d]) = ZLayers - 1
            /\ chunks[p].z_layers[d][1].kind # "None"


(***************************************************************************)
(* C34: moving a slot of a chunk to another slot of the chunk.  If the     *)
(* destination holds a layer at some depth nothing changes at any depth;   *)
(* otherwise, at every depth, the destination holds what the origin held,  *)
(* the origin is empty and every other slot is as before.                  *)
(***************************************************************************)
C34_ChunkMoveLayer ==
    \A p \in DOMAIN chunks : \A from \in ZOrders, to \in ZOrders :
        (HasSlot(chunks[p], from) /\ HasSlot(chunks[p], to)) =>
            LET before == chunks[p].z_layers
                r == Chunk_move_layer(chunks[p], from, to)
                after == r.chunk.z_layers
            IN  /\ ~r.panic
                /\ Len(after) = Len(before)
                /\ IF \E d \in 1..Len(before) : before[d][to + 1].kind # "None"
                   THEN after = before
                   ELSE \A d \in 1..Len(before) :
                            /\ Len(after[d]) = Len(before[d])
                            /\ after[d][to + 1] = before[d][from + 1]
                            /\ after[d][from + 1] = NoLayer
                            /\ \A s \in 1..Len(before[d]) :
                                (s # from + 1 /\ s # to + 1) => after[d][s] = before[d][s]

\* move_layer(0, 1) has moved a layer of a chunk: at every depth the second
\* slot holds a layer and the first is empty
C34_Witness ==
    /\ op.name = "move_layer"
    /\ op.args = <<0, 1>>
    /\ op.res = Ok
    /\ \E p \in DOMAIN chunks :
        \A d \in 1..Len(chunks[p].z_layers) :
            /\ Len(chunks[p].z_layers[d]) = ZLayers
            /\ chunks[p].z_layers[d][1] = NoLayer
            /\ chunks[p].z_layers[d][2].kind # "None"

\* a chunk in which a move finds its destination occupied
C34_WitnessOccupied ==
    \E p \in DOMAIN chunks :
        /\ HasSlot(chunks[p], 0) /\ HasSlot(chunks[p], 1)
        /\ chunks[p].z_layers[1][1].kind # "None"
        /\ chunks[p].z_layers[1][2].kind # "None"
        /\ chunks[p].z_layers[1][1] # chunks[p].z_layers[1][2]


(***************************************************************************)
(* C35: the renderer parts of a chunk are the attribute arrays of its      *)
(* present layers one after the other, all slots of the first depth in     *)
(* ascending order, then those of the next depth, absent layers taking no  *)
(* room; the two arrays are equally long.  Whatever the order in which     *)
(* the sparse maps iterate.                                                *)
(***************************************************************************)
RECURSIVE SeqProduct(_, _)
\* the sequences of length k whose i-th element is drawn from sets[i]
SeqProduct(sets, k) ==
    IF k = 0 THEN {<<>>}
    ELSE {Append(o, x) : o \in SeqProduct(sets, k - 1), x \in sets[k]}

LayerKeys(l) == IF l.kind = "Sparse" THEN DOMAIN l.tiles ELSE {}

\* every way the maps of the layers of a chunk may iterate
OrderChoices(chunk) ==
    SeqProduct([d \in 1..Len(chunk.z_layers) |->
                    SeqProduct([s \in 1..Len(chunk.z_layers[d]) |->
                                    Orders(LayerKeys(chunk.z_layers[d][s]))],
                               Len(chunk.z_layers[d]))],
               Len(chunk.z_layers))

PresentCells(chunk) ==
    {c \in (1..Len(chunk.z_layers)) \X (1..ZLayers) :
        /\ c[2] <= Len(chunk.z_layers[c[1]])
        /\ chunk.z_layers[c[1]][c[2]].kind # "None"}

CellAttributes(chunk, orders, c) ==
    Layer_tiles_to_attributes(chunk.z_layers[c[1]][c[2]], ChunkArea, orders[c[1]][c[2]])

RECURSIVE CellsLen(_, _, _)
\* the number of entries the layers at the cells S take
CellsLen(chunk, orders, S) ==
    IF S = {} THEN 0
    ELSE LET c == CHOOSE x \in S : TRUE
         IN  Len(CellAttributes(chunk, orders, c).tile_indexes)
                + CellsLen(chunk, orders, S \ {c})

\* depth-major, then slot-major
CellBefore(a, b) == a[1] < b[1] \/ (a[1] = b[1] /\ a[2] < b[2])

SerializedInOrder(chunk, orders) ==
    LET parts == Chunk_tiles_to_renderer_parts(chunk, ChunkArea, orders)
        cells == PresentCells(chunk)
    IN  /\ Len(parts.tile_indexes) = Len(parts.tile_colors)
        /\ Len(parts.tile_indexes) = CellsLen(chunk, orders, cells)
        /\ \A c \in cells :
            LET a == CellAttributes(chunk, orders, c)
                off == CellsLen(chunk, orders, {b \in cells : CellBefore(b, c)})
            IN  /\ Len(a.tile_indexes) = Len(a.tile_colors)
                /\ \A j \in 1..Len(a.tile_indexes) :
                    /\ parts.tile_indexes[off + j] = a.tile_indexes[j]
                    /\ parts.tile_colors[off + j] = a.tile_colors[j]

C35_SerializeAll ==
    \A p \in DOMAIN chunks : \A orders \in OrderChoices(chunks[p]) :
        SerializedInOrder(chunks[p], orders)

\* a chunk whose first slot is absent and whose second holds a tile: the
\* parts are those of the second slot of each depth, the tile in front
C35_Witness ==
    \E p \in DOMAIN chunks :
        /\ Len(chunks[p].z_layers) = ChunkDepth
        /\ \A d \in 1..ChunkDepth : Len(chunks[p].z_layers[d]) = ZLayers
        /\ chunks[p].z_layers[1][1].kind = "None"
        /\ chunks[p].z_layers[1][2].kind = "Dense"
        /\ chunks[p].z_layers[1][2].tiles[1].index # 0
        /\ \E orders \in OrderChoices(chunks[p]) :
            LET parts == Chunk_tiles_to_renderer_parts(chunks[p], ChunkArea, orders)
            IN  /\ Len(parts.tile_indexes) = ChunkDepth * ChunkArea * 4
                /\ parts.tile_indexes[1] # 0
                /\ parts.tile_indexes[ChunkArea * 4 + 1] = 0


(***************************************************************************)
(* C36: an insert_chunk that returns ChunkAlreadyExists leaves the chunk   *)
(* stored at the point as it was: its layers, their tiles and their        *)
(* entities.                                                               *)
(***************************************************************************)
C36_ExistingChunkUntouched ==
    \A p \in ChunkPoints :
        LET r == Tilemap_insert_chunk(Self, p)
        IN  r.res = Err("ChunkAlreadyExists", p) =>
                /\ p \in DOMAIN r.self.chunks
                /\ r.self.chunks[p] = chunks[p]
                /\ \A z \in ZOrders, i \in 0..(ChunkArea - 1) :
                    Chunk_get_tile(r.self.chunks[p], z, i) = Chunk_get_tile(chunks[p], z, i)

(***************************************************************************)
(* C37: after an add_layer that returns Ok the table has the layer at the  *)
(* z order, a z order at or past the end of the table included.            *)
(***************************************************************************)
C37_AddLayerOkConfigures ==
    \A kind \in LayerKinds, z \in ZOrders :
        LET r == Tilemap_add_layer(Self, kind, z)
        IN  r.res = Ok =>
                /\ z < Len(r.self.layers)
                /\ r.self.layers[z + 1] = kind


(***************************************************************************)
(* C38: clear_tiles creates nothing.  Whether it succeeds or fails, the    *)
(* tilemap has the same chunk points and the same layer table afterwards.  *)
(***************************************************************************)
C38_ClearCreatesNothing ==
    Running =>
        \A points \in SeqsUpTo(TilePoints \X ZOrders, MaxBatch) :
            \A order \in Orders({point_to_chunk_point(points[i][1]) : i \in 1..Len(points)}) :
                LET r == Tilemap_clear_tiles(Self, points, order)
                IN  /\ DOMAIN r.self.chunks = DOMAIN chunks
                    /\ r.self.layers = layers


(***************************************************************************)
(* C39: a successful insert_tiles changes tiles only at the (point, z      *)
(* order) pairs of its batch: at every other pair, in the chunks of the    *)
(* batch or in any other, get_tile returns afterwards what it returned     *)
(* before.                                                                 *)
(***************************************************************************)
BatchPairs(tiles) == {<<tiles[i].point, tiles[i].z_order>> : i \in 1..Len(tiles)}

\* get_tile at every probed pair
TilesOf(self) == [pair \in ProbePairs |-> Tilemap_get_tile(self, pair[1], pair[2])]

InsertTilesFrame(before, after, tiles) ==
    \A pair \in ProbePairs \ BatchPairs(tiles) :
        Tilemap_get_tile(after, pair[1], pair[2]) = before[pair]

\* tiles with one sprite index more than the tilemap holds, for batches of one
FrameTiles ==
    [point : TilePoints, z_order : ZOrders, sprite_index : 1..(MaxSprite + 1), tint : {1}]

C39_InsertTilesFrame ==
    Running =>
        LET before == TilesOf(Self)
        IN  \A tiles \in Batches \cup {<<tile>> : tile \in FrameTiles} :
                \A order \in Orders(ChunkPointsOf(tiles)) :
                    LET r == Tilemap_insert_tiles(Self, tiles, order)
                    IN  r.res = Ok => InsertTilesFrame(before, r.self, tiles)


\* a batch of one tile went into a chunk that held a tile at another z order
\* of the same point, and that tile is still there
C39_Witness ==
    /\ op.name = "insert_tiles"
    /\ op.res = Ok
    /\ op.args[1] = 1
    /\ calls = 2
    /\ \E p \in TilePoints, z1 \in ZOrders, z2 \in ZOrders :
        /\ z1 # z2
        /\ Tilemap_get_tile(Self, p, z1) # None
        /\ Tilemap_get_tile(Self, p, z2) # None


(***************************************************************************)
(* C40: a successful move_layer(from, to) keeps the tiles: at every point  *)
(* get_tile at `to` returns afterwards what it returned at `from` before,  *)
(* get_tile at `from` returns nothing, and get_tile at every other z order *)
(* returns what it returned before.                                        *)
(***************************************************************************)
MoveLayerKeepsTiles(after, from, to) ==
    \A p \in ProbePoints :
        /\ Tilemap_get_tile(after, p, to) = Tilemap_get_tile(Self, p, from)
        /\ from # to => Tilemap_get_tile(after, p, from) = None
        /\ \A z \in ZOrders \ {from, to} :
            Tilemap_get_tile(after, p, z) = Tilemap_get_tile(Self, p, z)

C40_MoveLayerKeepsTiles ==
    \A from \in ZOrders, to \in ZOrders :
        LET r == Tilemap_move_layer(Self, from, to)
        IN  r.res = Ok => MoveLayerKeepsTiles(r.self, from, to)

\* a layer holding a tile was moved from z order 0 to z order 1
C40_Witness ==
    /\ op.name = "move_layer"
    /\ op.args = <<0, 1>>
    /\ op.res = Ok
    /\ \E p \in TilePoints :
        /\ Tilemap_get_tile(Self, p, 1) # None
        /\ Tilemap_get_tile(Self, p, 0) = None

====
